---- MODULE Spec2Model ----
(***************************************************************************)
(* Model of src/offset_probe.py (class OffsetProbe): the probing move with *)
(* its homing guard and error annotation, the two-pass accurate probe, the *)
(* lift between probes and the OFFSET_PROBE command.                       *)
(*                                                                         *)
(* The printer's services (object registry, toolheads, homing, scripts)    *)
(* are collaborators outside this module: every call into them is a        *)
(* nondeterministic choice over the results the call can give.             *)
(*                                                                         *)
(* Speeds are kept as numerators over SpeedDen (speed 5.0 is 10), so that  *)
(* speed / 2 and round() are computed exactly.  Positions are integers.    *)
(***************************************************************************)
EXTENDS Integers, Sequences, FiniteSets, TLC

\* ---------------------------------------------------------------- bounds
SpeedDen    == 2      \* speeds are numerators over SpeedDen
MaxSpeedNum == 5      \* configured plunge speeds are 1/SpeedDen .. MaxSpeedNum/SpeedDen
MaxZ        == 2      \* toolheads start at Z in 1 .. MaxZ
MaxTextLen  == 3      \* error texts of the motion layer have 1 .. MaxTextLen words

\* ------------------------------------------------- configuration (__init__)
probe_x       == 10
probe_y       == 20
lift_distance == 1
lift_speed    == 6
move_speed    == 200
z_position    == 0
NumTools      == 2      \* toolchange_gcode_0 and toolchange_gcode_1

\* ------------------------------------------------------------- vocabulary
None      == "None"
Toolheads == {"TH0", "TH1"}          \* the toolhead objects of the printer
\* what the module passes to lookup_object as a toolhead: the names
\* 'toolhead' and 'toolhead1', a toolhead object, and the integer 2
Keys      == {"toolhead", "toolhead1", "int2"} \cup Toolheads

\* words of an error text; the first two, adjacent, are the phrase
\* "Timeout during endstop homing"
Words         == {"Timeout during", "endstop homing", "other"}
TimeoutPhrase == <<"Timeout during", "endstop homing">>
HINT_TIMEOUT  == <<"HINT_TIMEOUT">>
MsgNotHomed   == <<"Must home before offset probing">>
MsgUnknown    == <<"Unknown config object">>
MsgTypeError  == <<"unsupported operand type(s) for +">>
MsgMove       == <<"Move out of range">>
MsgScript     == <<"script failed">>

Texts == UNION {[1..n -> Words] : n \in 1..MaxTextLen}

Frames    == {<<0, 0, 0>>, <<1, 2, 3>>}
HomedSets == {{}, {"x", "y"}, {"x", "y", "z"}}

\* an optional value is <<>> (None, absent) or <<v>>
LiftSpeedParams == {<<>>, <<lift_speed + 1>>}

NoError == [kind |-> "none", text |-> <<>>]
Raise(k, t) == [kind |-> k, text |-> t]

VARIABLES
  objects,        \* printer.objects: key -> toolhead object, or None
  interp,         \* major version of the Python interpreter (2 or 3)
  speed,          \* self.speed, numerator over SpeedDen
  gcmd,           \* the LIFT_SPEED parameter of the command: <<>> or <<value>>
  abort,          \* the host has asked to abort the running command
  homed_axes,     \* toolhead.get_status()['homed_axes']
  base_position,  \* gcode_move.base_position (the active offset frame)
  position,       \* toolhead object -> its position [x, y, z, e]
  pc,             \* position of the running call
  entry,          \* the operation that was invoked
  arg,            \* the toolhead argument of the invoked operation
  toolhead,       \* local: the toolhead variable of the running method
  start_z,        \* local of _accurate_probe
  reprobe_speed,  \* local of _accurate_probe (numerator over SpeedDen)
  offsets,        \* local of cmd_OFFSET_PROBE: <<>> unbound, <<list>> bound
  result,         \* the returned value (None until a return)
  error,          \* the exception that left the call
  extError,       \* the exception a collaborator (script, move, probing move) raised
  homedAtCall,    \* homed_axes when the operation was invoked
  log             \* the calls issued to the collaborators, in order

vars == <<objects, interp, speed, gcmd, abort, homed_axes, base_position, position, pc,
          entry, arg, toolhead, start_z, reprobe_speed, offsets, result,
          error, extError, homedAtCall, log>>

inputs == <<objects, interp, speed, gcmd>>

\* what no line of the module writes
env == <<inputs, abort>>

\* -------------------------------------------------------- pure functions

\* Python's round(num / den) for num >= 0, den > 0: to the nearest integer;
\* a tie goes to the even neighbour in Python 3, away from zero in Python 2.
PyRound(num, den) ==
  LET q == num \div den
      r == num % den
  IN  IF 2 * r < den THEN q
      ELSE IF 2 * r > den THEN q + 1
      ELSE IF interp = 3 THEN (IF q % 2 = 0 THEN q ELSE q + 1)
      ELSE q + 1

\* Python's "needle in text" on the words of a text
Contains(text, needle) ==
  \E i \in 0..(Len(text) - Len(needle)) :
     \A j \in 1..Len(needle) : text[i + j] = needle[j]

\* printer.lookup_object(key) for a toolhead key; None stands for the raise
lookup_object(key) == objects[key]

\* the guard left out
EnsureHomedSkipped == TRUE

\* _ensure_homed: TRUE when the check passes, FALSE when it raises
_ensure_homed == "z" \in homed_axes

\* the hint replacing the reason instead of following it
ProbeErrorTextSwallowed(reason) ==
  IF Contains(reason, TimeoutPhrase) THEN HINT_TIMEOUT ELSE reason

\* the except clause of _probe: the text of the re-raised command_error
ProbeErrorText(reason) ==
  IF Contains(reason, TimeoutPhrase) THEN reason \o HINT_TIMEOUT ELSE reason

\* get_lift_speed(gcmd): the LIFT_SPEED parameter, self.lift_speed by default
get_lift_speed(g) == IF g # <<>> THEN g[1] ELSE lift_speed

\* an absent axis taken as 0 before the frame is applied
GetGcodePositionDefaulted(x, y, z) ==
  << <<(IF x # <<>> THEN x[1] ELSE 0) + base_position[1]>>,
     <<(IF y # <<>> THEN y[1] ELSE 0) + base_position[2]>>,
     <<(IF z # <<>> THEN z[1] ELSE 0) + base_position[3]>> >>

\* _get_gcode_position(x, y, z) on optional values
_get_gcode_position(x, y, z) ==
  LET offsets_ == base_position IN
    << IF x # <<>> THEN <<x[1] + offsets_[1]>> ELSE x,
       IF y # <<>> THEN <<y[1] + offsets_[2]>> ELSE y,
       IF z # <<>> THEN <<z[1] + offsets_[3]>> ELSE z >>

\* reprobe_speed = round(speed / 2), as a numerator over SpeedDen
ReprobeSpeed(s) == SpeedDen * PyRound(s, 2 * SpeedDen)

\* the results phoming.probing_move can give for a toolhead at height z:
\* the trigger position, a command_error with some text, another exception
ProbeOutcomes(z) ==
       {[ok |-> TRUE, z |-> t, kind |-> "none", text |-> <<>>] : t \in z_position..z}
  \cup {[ok |-> FALSE, z |-> 0, kind |-> "command_error", text |-> t] : t \in Texts}
  \cup {[ok |-> FALSE, z |-> 0, kind |-> "Exception", text |-> <<"other">>]}

Call(op, th, pos, s) == [op |-> op, th |-> th, pos |-> pos, speed |-> s]

\* _probe returning the Z of the commanded target instead of epos[2]
ProbeReturnsTarget(s, key, out) ==
  IF ~_ensure_homed
    THEN [error |-> Raise("command_error", MsgNotHomed), value |-> None,
          issued |-> <<>>, th |-> None, ext |-> NoError]
  ELSE IF lookup_object(key) = None
    THEN [error |-> Raise("config_error", MsgUnknown), value |-> None,
          issued |-> <<>>, th |-> None, ext |-> NoError]
  ELSE LET th  == lookup_object(key)
           pos == [position[th] EXCEPT ![3] = z_position]
           mv  == <<Call("probing_move", th, pos, s)>>
       IN  IF out.ok
             THEN [error |-> NoError, value |-> pos[3], issued |-> mv,
                   th |-> th, ext |-> NoError]
           ELSE [error |-> Raise(out.kind, ProbeErrorText(out.text)),
                 value |-> None, issued |-> mv, th |-> th,
                 ext |-> Raise(out.kind, out.text)]

\* _probe(speed, toolhead) with out the result of its probing move: the
\* exception or the returned Z, and the probing move it issued (if any)
_probe(s, key, out) ==
  IF ~_ensure_homed
    THEN [error |-> Raise("command_error", MsgNotHomed), value |-> None,
          issued |-> <<>>, th |-> None, ext |-> NoError]
  ELSE IF lookup_object(key) = None
    THEN [error |-> Raise("config_error", MsgUnknown), value |-> None,
          issued |-> <<>>, th |-> None, ext |-> NoError]
  ELSE LET th  == lookup_object(key)
           pos == [position[th] EXCEPT ![3] = z_position]
           mv  == <<Call("probing_move", th, pos, s)>>
       IN  IF out.ok
             THEN [error |-> NoError, value |-> out.z, issued |-> mv,
                   th |-> th, ext |-> NoError]
           ELSE IF out.kind = "command_error"
             THEN [error |-> Raise("command_error", ProbeErrorText(out.text)),
                   value |-> None, issued |-> mv, th |-> th,
                   ext |-> Raise(out.kind, out.text)]
           ELSE [error |-> Raise(out.kind, out.text), value |-> None,
                 issued |-> mv, th |-> th, ext |-> Raise(out.kind, out.text)]

\* the height the probing move of _probe starts from
ProbeHeight(key) ==
  IF lookup_object(key) = None THEN z_position ELSE position[lookup_object(key)][3]

\* the positions after _probe with out the result of its probing move: a
\* triggered probe leaves the toolhead at the trigger height
AfterProbe(r, out) ==
  IF r.error = NoError THEN [position EXCEPT ![r.th][3] = out.z] ELSE position

\* ------------------------------------------------------------------ Init

\* The registry is the printer's, not this module's: 'toolhead' is always
\* registered; 'toolhead1', the toolhead objects themselves and the integer 2
\* (all of which the module passes as keys) may resolve or not.  A registry
\* keyed by names only is the one with no object and no integer key.
Registries ==
  {o \in [Keys -> Toolheads \cup {None}] :
      /\ o["toolhead"] = "TH0"
      /\ o["toolhead1"] \in {None, "TH1"}
      /\ \/ \A t \in Toolheads : o[t] = t
         \/ \A t \in Toolheads : o[t] = None}

Init ==
  /\ objects \in Registries
  /\ interp \in {2, 3}
  /\ speed \in 1..MaxSpeedNum
  /\ gcmd \in LiftSpeedParams
  /\ abort = FALSE
  /\ homed_axes \in HomedSets
  /\ base_position \in Frames
  /\ \E z \in 1..MaxZ :
        position = [t \in Toolheads |->
                      IF t = "TH0" THEN <<0, 0, z, 7>> ELSE <<5, 5, MaxZ, 8>>]
  /\ pc = "idle"
  /\ entry = None
  /\ arg = None
  /\ toolhead = None
  /\ start_z = None
  /\ reprobe_speed = None
  /\ offsets = <<>>
  /\ result = None
  /\ error = NoError
  /\ extError = NoError
  /\ homedAtCall = {}
  /\ log = <<>>

\* --------------------------------------------------------------- helpers

locals == <<toolhead, start_z, reprobe_speed, offsets>>

\* the exception swallowed and the step tried again
FailRetried(e) == /\ pc' = pc
                  /\ UNCHANGED <<error, result>>

\* the call ends with exception e
Fail(e) == /\ pc' = "done"
           /\ error' = e
           /\ result' = None

\* an invocation of operation op with toolhead argument k
Invoke(op, k, first) ==
  /\ pc = "idle"
  /\ pc' = first
  /\ entry' = op
  /\ arg' = k
  /\ homedAtCall' = homed_axes
  /\ UNCHANGED <<env, homed_axes, base_position, position, locals, result,
                 error, extError, log>>

\* ------------------------------------------------- _probe, called directly

CallProbe == \E k \in Keys : Invoke("_probe", k, "probe")

Probe ==
  /\ pc = "probe"
  /\ \E out \in ProbeOutcomes(ProbeHeight(arg)) :
       LET r == _probe(speed, arg, out) IN
         /\ log' = log \o r.issued
         /\ position' = AfterProbe(r, out)
         /\ extError' = r.ext
         /\ pc' = "done"
         /\ error' = r.error
         /\ result' = r.value
         /\ toolhead' = r.th
  /\ UNCHANGED <<env, homed_axes, base_position, entry, arg, start_z,
                 reprobe_speed, offsets, homedAtCall>>

\* homed_axes after a blocking call that let the reactor run: unchanged, or
\* cleared because the steppers were disabled meanwhile
AfterYield == {homed_axes, {}}

\* ----------------------------------------------------- _lift_between_probes

\* _lift_between_probes(toolhead) with dist left to its default; ok tells
\* whether manual_move succeeds
_lift_between_probes(key, ok) ==
  IF lookup_object(key) = None
    THEN [error |-> Raise("config_error", MsgUnknown), issued |-> <<>>,
          th |-> None, ext |-> NoError]
  ELSE LET th      == lookup_object(key)
           liftpos == [position[th] EXCEPT ![3] = @ + lift_distance]
           mv      == <<Call("manual_move", th, liftpos, lift_speed)>>
       IN  IF ok
             THEN [error |-> NoError, issued |-> mv, th |-> th, ext |-> NoError]
             ELSE [error |-> Raise("command_error", MsgMove), issued |-> mv,
                   th |-> th, ext |-> Raise("command_error", MsgMove)]

\* the positions after a lift: a completed manual_move leaves the toolhead
\* at its target
AfterLift(r) ==
  IF r.error = NoError THEN [position EXCEPT ![r.th] = r.issued[1].pos]
  ELSE position

CallLift == \E k \in Keys : Invoke("_lift_between_probes", k, "lift")

Lift ==
  /\ pc = "lift"
  /\ \E ok \in BOOLEAN :
       LET r == _lift_between_probes(arg, ok) IN
         /\ log' = log \o r.issued
         /\ position' = AfterLift(r)
         /\ extError' = r.ext
         /\ pc' = "done"
         /\ error' = r.error
         /\ result' = None
         /\ toolhead' = r.th
  /\ UNCHANGED <<env, homed_axes, base_position, entry, arg, start_z,
                 reprobe_speed, offsets, homedAtCall>>

\* ---------------------------------------------------------- _accurate_probe

\* the key _accurate_probe passes to _lift_between_probes (line 96)
LiftKey == "int2"

CallAccurateProbe == \E k \in Keys : Invoke("_accurate_probe", k, "ap_probe1")

\* lines 92-93: toolhead = lookup_object(toolhead); start_z = _probe(speed, toolhead)
AccurateFirstProbe ==
  /\ pc = "ap_probe1"
  /\ IF lookup_object(arg) = None
       THEN /\ Fail(Raise("config_error", MsgUnknown))
            /\ UNCHANGED <<homed_axes, position, locals, extError, log>>
       ELSE \E out \in ProbeOutcomes(ProbeHeight(lookup_object(arg))) :
              LET r == _probe(speed, lookup_object(arg), out) IN
                /\ toolhead' = lookup_object(arg)
                /\ log' = log \o r.issued
                /\ position' = AfterProbe(r, out)
                /\ extError' = r.ext
                /\ IF r.error = NoError
                     THEN /\ pc' = "ap_lift"
                          /\ start_z' = r.value
                          /\ homed_axes' \in AfterYield
                          /\ UNCHANGED <<error, result>>
                     ELSE /\ Fail(r.error)
                          /\ UNCHANGED <<start_z, homed_axes>>
                /\ UNCHANGED <<reprobe_speed, offsets>>
  /\ UNCHANGED <<env, base_position, entry, arg, homedAtCall>>

\* lines 94-96: reprobe_speed = round(speed / 2); self._lift_between_probes(2)
AccurateLift ==
  /\ pc = "ap_lift"
  /\ reprobe_speed' = ReprobeSpeed(speed)
  /\ \E ok \in BOOLEAN :
       LET r == _lift_between_probes(LiftKey, ok) IN
         /\ log' = log \o r.issued
         /\ position' = AfterLift(r)
         /\ extError' = r.ext
         /\ IF r.error = NoError
              THEN /\ pc' = "ap_probe2"
                   /\ homed_axes' \in AfterYield
                   /\ UNCHANGED <<error, result>>
              ELSE /\ Fail(r.error)
                   /\ UNCHANGED homed_axes
  /\ UNCHANGED <<env, base_position, entry, arg, toolhead, start_z, offsets,
                 homedAtCall>>

\* the first probe's Z returned instead of the second's
AccurateReprobeReturnsFirst ==
  /\ pc = "ap_probe2"
  /\ \E out \in ProbeOutcomes(ProbeHeight(toolhead)) :
       LET r == _probe(reprobe_speed, toolhead, out) IN
         /\ log' = log \o r.issued
         /\ position' = AfterProbe(r, out)
         /\ extError' = r.ext
         /\ pc' = "done"
         /\ error' = r.error
         /\ result' = IF r.error = NoError THEN start_z ELSE None
  /\ UNCHANGED <<env, homed_axes, base_position, entry, arg, locals, homedAtCall>>

\* lines 97-98: accurate_z = _probe(reprobe_speed, toolhead); return accurate_z
AccurateReprobe ==
  /\ pc = "ap_probe2"
  /\ \E out \in ProbeOutcomes(ProbeHeight(toolhead)) :
       LET r == _probe(reprobe_speed, toolhead, out) IN
         /\ log' = log \o r.issued
         /\ position' = AfterProbe(r, out)
         /\ extError' = r.ext
         /\ pc' = "done"
         /\ error' = r.error
         /\ result' = r.value
  /\ UNCHANGED <<env, homed_axes, base_position, entry, arg, locals, homedAtCall>>

\* ------------------------------------------------------- cmd_OFFSET_PROBE

\* what a script can leave behind: Z homed or as it was, any offset frame
ScriptHomed == {homed_axes, {"x", "y", "z"}}

\* template.run_gcode_from_command() of the script named op
RunScript(op, next) ==
  /\ log' = log \o <<Call(op, None, <<>>, 0)>>
  /\ \/ /\ pc' = next
        /\ homed_axes' \in ScriptHomed
        /\ base_position' \in Frames
        /\ UNCHANGED <<error, result, extError>>
     \/ /\ Fail(Raise("command_error", MsgScript))
        /\ extError' = Raise("command_error", MsgScript)
        /\ UNCHANGED <<homed_axes, base_position>>

CallCmd == Invoke("cmd_OFFSET_PROBE", None, "cmd_start")

\* line 123: self.start_gcode.run_gcode_from_command()
CmdStartScript ==
  /\ pc = "cmd_start"
  /\ RunScript("start_gcode", "cmd_toolchange0")
  /\ UNCHANGED <<env, position, entry, arg, locals, homedAtCall>>

\* lines 126-133: toolhead = lookup_object('toolhead'); offsets = [];
\* self.toolchange_gcode_0.run_gcode_from_command()
CmdToolchange0 ==
  /\ pc = "cmd_toolchange0"
  /\ toolhead' = lookup_object("toolhead")
  /\ offsets' = << <<>> >>
  /\ RunScript("toolchange_gcode_0", "cmd_coord0")
  /\ UNCHANGED <<env, position, entry, arg, start_z, reprobe_speed, homedAtCall>>

\* Python's a + b for a number a and a list b: a TypeError
PyAddNumberList(a, b) == Raise("TypeError", MsgTypeError)

\* lines 135-136: curr_pos = toolhead.get_position();
\* coord = self.probe_x, y = self.probe_y, z = curr_pos[2] + curr_pos[3:]
\* The right-hand side adds the number curr_pos[2] to the list curr_pos[3:],
\* which raises before any of the three targets is assigned.
CmdCoord0 ==
  /\ pc = "cmd_coord0"
  /\ LET curr_pos == position[toolhead] IN
       Fail(PyAddNumberList(curr_pos[3], SubSeq(curr_pos, 4, Len(curr_pos))))
  /\ UNCHANGED <<env, homed_axes, base_position, position, entry, arg, locals,
                 extError, homedAtCall, log>>

\* ---------------------------------- get_lift_speed, _get_gcode_position

CallGetLiftSpeed == Invoke("get_lift_speed", None, "lift_speed")

GetLiftSpeed ==
  /\ pc = "lift_speed"
  /\ pc' = "done"
  /\ result' = get_lift_speed(gcmd)
  /\ UNCHANGED <<env, homed_axes, base_position, position, entry, arg, locals,
                 error, extError, homedAtCall, log>>

OptAxis(vals) == {<<>>} \cup {<<v>> : v \in vals}

CallGetGcodePosition ==
  \E x \in OptAxis({probe_x}), y \in OptAxis({probe_y}), z \in OptAxis(0..MaxZ) :
     Invoke("_get_gcode_position", <<x, y, z>>, "resolve")

GetGcodePosition ==
  /\ pc = "resolve"
  /\ pc' = "done"
  /\ result' = _get_gcode_position(arg[1], arg[2], arg[3])
  /\ UNCHANGED <<env, homed_axes, base_position, position, entry, arg, locals,
                 error, extError, homedAtCall, log>>

\* ------------------------------------------------------------ environment

\* the host asks to abort while cmd_OFFSET_PROBE runs; no line of the module
\* reads the request
HostAbort ==
  /\ entry = "cmd_OFFSET_PROBE"
  /\ pc \notin {"idle", "done"}
  /\ ~abort
  /\ abort' = TRUE
  /\ UNCHANGED <<inputs, homed_axes, base_position, position, pc, entry, arg,
                 locals, result, error, extError, homedAtCall, log>>

\* ------------------------------------------------------------------ Next

Next ==
  \/ CallProbe
  \/ Probe
  \/ CallLift
  \/ Lift
  \/ CallAccurateProbe
  \/ AccurateFirstProbe
  \/ AccurateLift
  \/ AccurateReprobe
  \/ CallCmd
  \/ CmdStartScript
  \/ CmdToolchange0
  \/ CmdCoord0
  \/ CallGetLiftSpeed
  \/ GetLiftSpeed
  \/ CallGetGcodePosition
  \/ GetGcodePosition
  \/ HostAbort

Spec == Init /\ [][Next]_vars

\* ================================================================ claims

extFailed  == extError # NoError
ErrNotHomed == Raise("command_error", MsgNotHomed)
IsProbingMove(c) == c.op = "probing_move"
IsMove(c)        == c.op = "manual_move"
ProbingMoves == SelectSeq(log, IsProbingMove)
Moves        == SelectSeq(log, IsMove)
Ops          == [i \in 1..Len(log) |-> log[i].op]

\* a cmd_OFFSET_PROBE run has ended and none of its collaborators (scripts,
\* moves, probing moves) raised
CmdEndedNoCollaboratorError ==
  entry = "cmd_OFFSET_PROBE" /\ pc = "done" /\ ~extFailed

\* r is a nearest integer of num / den
IsNearestInt(r, num, den) ==
  /\ 2 * (num - r * den) <= den
  /\ 2 * (r * den - num) <= den

\* C1: for every plunge speed s >= 1 passed to _accurate_probe, the speed of
\* the second probing move is round(s / 2), an integer nearest to s / 2, and
\* is strictly greater than 0.
C1_ReprobeSpeedPositive ==
  (entry = "_accurate_probe" /\ speed >= SpeedDen /\ Len(ProbingMoves) = 2)
    => \E r \in 1..MaxSpeedNum :
          /\ ProbingMoves[2].speed = r * SpeedDen
          /\ IsNearestInt(r, speed, 2 * SpeedDen)

\* C2: a _probe that starts while 'z' is not in the homed axes ends with the
\* not-homed error, and issues no probing move nor any other motion command.
C2_UnhomedProbeBlocked ==
  [][ ( /\ pc \in {"probe", "ap_probe1", "ap_probe2"}
        /\ ~(pc = "ap_probe1" /\ lookup_object(arg) = None)
        /\ "z" \notin homed_axes )
      => ( /\ pc' = "done"
           /\ error' = ErrNotHomed
           /\ log' = log
           /\ position' = position ) ]_vars

C2_Witness ==
  /\ entry = "_probe"
  /\ pc = "done"
  /\ "z" \notin homedAtCall
  /\ "x" \in homedAtCall
  /\ error = ErrNotHomed
  /\ log = <<>>

\* C3: in a run of cmd_OFFSET_PROBE started with Z not homed (and staying
\* so), the not-homed error is raised, before any motion command of the run.
C3_NotHomedBeforeMotion ==
  (CmdEndedNoCollaboratorError /\ "z" \notin homedAtCall /\ "z" \notin homed_axes)
    => /\ error = ErrNotHomed
       /\ Moves = <<>>
       /\ ProbingMoves = <<>>

\* C4: a successful run of cmd_OFFSET_PROBE returns the offset sequence, with
\* exactly one entry per non-reference tool 1 .. NumTools - 1 (each entry
\* z_i - z_0).
C4_OffsetsReturned ==
  CmdEndedNoCollaboratorError
    => /\ error = NoError
       /\ result # None
       /\ offsets # <<>>
       /\ result = offsets[1]
       /\ Len(result) = NumTools - 1

\* C5: the final summary line has one entry per non-reference tool, labelled
\* T1 .. T(NumTools - 1) in this order, and none labelled T0.
C5_SummaryLabels ==
  CmdEndedNoCollaboratorError
    => \E i \in 1..Len(log) :
          /\ log[i].op = "respond_info Offsets"
          /\ log[i].pos = [t \in 1..(NumTools - 1) |-> t]

\* C6: when _accurate_probe issues its two probing moves, exactly one lift
\* lies between them, on the toolhead being probed, to the Z of the first
\* trigger plus lift_distance.
C6_OneLiftOnProbedToolhead ==
  (entry = "_accurate_probe" /\ Len(ProbingMoves) = 2)
    => /\ Ops = <<"probing_move", "manual_move", "probing_move">>
       /\ log[2].th = log[1].th
       /\ log[2].pos[3] = start_z + lift_distance

\* C7: when the probing move of _probe fails, the surfaced error carries the
\* original text followed by HINT_TIMEOUT if the text has the timeout phrase
\* in it, and the original text alone otherwise.
C7_ErrorTextKept ==
  ( /\ entry \in {"_probe", "_accurate_probe"}
    /\ pc = "done"
    /\ extFailed
    /\ IsProbingMove(log[Len(log)]) )
    => /\ error.kind = extError.kind
       /\ IF /\ extError.kind = "command_error"
             /\ \E i \in 1..(Len(extError.text) - 1) :
                   SubSeq(extError.text, i, i + 1) = TimeoutPhrase
            THEN error.text = extError.text \o HINT_TIMEOUT
            ELSE error.text = extError.text

C7_Witness ==
  /\ entry = "_probe"
  /\ pc = "done"
  /\ extError = Raise("command_error", <<"other">> \o TimeoutPhrase)
  /\ error = Raise("command_error", <<"other">> \o TimeoutPhrase \o HINT_TIMEOUT)

\* C8: the position tool 0's toolhead is moved to before probing is
\* (probe_x + dx, probe_y + dy, z_cur + dz, e_cur) for the frame (dx, dy, dz)
\* active after its toolchange script and the pose read after that script.
C8_MoveToResolvedTarget ==
  CmdEndedNoCollaboratorError
    => \E i \in 1..Len(log) :
          /\ IsMove(log[i])
          /\ log[i].th = lookup_object("toolhead")
          /\ log[i].speed = move_speed
          /\ log[i].pos = << probe_x + base_position[1],
                             probe_y + base_position[2],
                             position[lookup_object("toolhead")][3] + base_position[3],
                             position[lookup_object("toolhead")][4] >>

\* C9: the start script is the first call of every run, and a successful run
\* executes the end script after the last tool's lift-away and before the
\* summary line.
C9_ScriptsBracketRun ==
  /\ (entry = "cmd_OFFSET_PROBE" /\ log # <<>>) => log[1].op = "start_gcode"
  /\ CmdEndedNoCollaboratorError
       => \E i \in 2..(Len(log) - 1) :
             /\ log[i].op = "end_gcode"
             /\ IsMove(log[i - 1])
             /\ log[Len(log)].op = "respond_info Offsets"

\* the calls of one tool's cycle, in order
CycleOps(i) ==
  << IF i = 0 THEN "toolchange_gcode_0" ELSE "toolchange_gcode_1",
     "manual_move", "probing_move", "manual_move", "probing_move",
     "respond_info Tool", "manual_move" >>

\* C10: a successful run puts each tool through exactly one cycle, tool 0
\* first: toolchange script, move to the probe point, accurate probe (probe,
\* lift, probe), report, lift-away.
C10_CyclesInOrder ==
  CmdEndedNoCollaboratorError
    => /\ Len(log) >= 1 + 7 * NumTools
       /\ \A i \in 0..(NumTools - 1) :
             SubSeq(Ops, 2 + 7 * i, 8 + 7 * i) = CycleOps(i)

\* C12: an abort request of the host that arrives during a run of
\* cmd_OFFSET_PROBE is observed at the next step boundary: no probing is
\* started after it and the end script is run before the command ends.
C12_AbortRunsEndScript ==
  (entry = "cmd_OFFSET_PROBE" /\ pc = "done" /\ abort)
    => /\ \E i \in 1..Len(log) : log[i].op = "end_gcode"
       /\ ProbingMoves = <<>>

\* C13: a failed collaborator call (either probing move of _accurate_probe
\* among them) is not retried: the call ends there with the error, returns
\* nothing, and no offset is appended nor any summary line emitted.
C13_NoRetryAfterFailure ==
  extFailed
    => /\ pc = "done"
       /\ error.kind = extError.kind
       /\ Contains(error.text, extError.text)
       /\ result = None
       /\ Len(ProbingMoves) <= 2
       /\ offsets \in {<<>>, << <<>> >>}
       /\ \A i \in 1..Len(log) : log[i].op # "respond_info Offsets"

C13_Witness ==
  /\ entry = "_accurate_probe"
  /\ pc = "done"
  /\ Ops = <<"probing_move", "manual_move", "probing_move">>
  /\ extError.kind = "command_error"
  /\ error = extError

\* C14: every probed tool i gets a report line 'Tool i: z_i' carrying its own
\* index, in the order Tool 0, Tool 1 for two tools.
C14_ReportLines ==
  CmdEndedNoCollaboratorError
    => LET IsReport(c) == c.op = "respond_info Tool"
           reports     == SelectSeq(log, IsReport)
       IN  /\ Len(reports) = NumTools
           /\ \A i \in 1..NumTools : reports[i].pos = <<i - 1>>

\* C15: _get_gcode_position returns every present axis increased by the
\* matching component of the active frame and every absent axis absent, and
\* leaves the frame unchanged.
C15_ResolvePresentAxesOnly ==
  [][ pc = "resolve"
      => /\ \A i \in 1..3 :
               result'[i] = IF arg[i] = <<>> THEN <<>>
                            ELSE <<arg[i][1] + base_position[i]>>
         /\ base_position' = base_position ]_vars

C15_Witness ==
  /\ entry = "_get_gcode_position"
  /\ pc = "done"
  /\ base_position = <<1, 2, 3>>
  /\ arg = << <<>>, <<probe_y>>, <<1>> >>
  /\ result = << <<>>, <<probe_y + 2>>, <<4>> >>

\* the toolhead key and the speed the running _probe call was given
ProbeKeyAt   == IF pc = "probe" THEN arg
                ELSE IF pc = "ap_probe1" THEN lookup_object(arg) ELSE toolhead
ProbeSpeedAt == IF pc = "ap_probe2" THEN reprobe_speed ELSE speed

\* C16: every probing move _probe issues targets the named toolhead's X, Y
\* and extruder position with Z = z_position, at the caller's speed, and a
\* successful _probe returns the Z where the probe triggered.
C16_ProbeTargetAndResult ==
  [][ (pc \in {"probe", "ap_probe1", "ap_probe2"} /\ Len(log') > Len(log))
      => LET th == lookup_object(ProbeKeyAt) IN
           /\ log' = Append(log, Call("probing_move", th,
                                      << position[th][1], position[th][2],
                                         z_position, position[th][4] >>,
                                      ProbeSpeedAt))
           /\ error' = NoError
                => IF pc = "ap_probe1" THEN start_z' = position'[th][3]
                   ELSE result' = position'[th][3] ]_vars

C16_Witness ==
  /\ entry = "_probe"
  /\ pc = "done"
  /\ error = NoError
  /\ arg = "toolhead1"
  /\ log = <<Call("probing_move", "TH1", <<5, 5, z_position, 8>>, speed)>>
  /\ result = 1
  /\ result # z_position

\* C17: when both probing moves succeed, _accurate_probe returns the Z of
\* the second probe, whatever the first probe measured.
C17_ReturnsSecondProbe ==
  (entry = "_accurate_probe" /\ pc = "done" /\ error = NoError)
    => /\ Len(ProbingMoves) = 2
       /\ result = position[ProbingMoves[2].th][3]

C17_Witness ==
  /\ entry = "_accurate_probe"
  /\ pc = "done"
  /\ error = NoError
  /\ start_z = 0
  /\ result = 1

\* C18: with a LIFT_SPEED override every lift of a command run (there is one
\* between the two probes and one after each tool) is executed at the
\* override speed, and at lift_speed without it.
C18_LiftSpeedOverride ==
  CmdEndedNoCollaboratorError
    => LET IsLift(c) == IsMove(c) /\ c.speed # move_speed
           lifts     == SelectSeq(log, IsLift)
       IN  /\ Len(lifts) = 2 * NumTools
           /\ \A i \in 1..Len(lifts) :
                 lifts[i].speed = IF gcmd = <<>> THEN lift_speed ELSE gcmd[1]

\* C19: the homed check is made again before each probing move: when Z stops
\* being homed after the first probe of _accurate_probe, the second probing
\* move is not issued and the call fails with the not-homed error.
C19_RecheckedBeforeReprobe ==
  ( /\ entry = "_accurate_probe"
    /\ pc = "done"
    /\ Moves # <<>>
    /\ ~extFailed
    /\ "z" \notin homed_axes )
    => /\ error = ErrNotHomed
       /\ Ops = <<"probing_move", "manual_move">>

C19_Witness ==
  /\ entry = "_accurate_probe"
  /\ pc = "done"
  /\ "z" \in homedAtCall
  /\ homed_axes = {}
  /\ Ops = <<"probing_move", "manual_move">>
  /\ error = ErrNotHomed

====
